---- MODULE Spec2Model ----
(***************************************************************************)
(* Model of canvas_modules_downloader.py: the URL classifier               *)
(* (to_download_url), the filename sanitizer (sanitize_filename), the      *)
(* link collector (collect_module_file_links), the batch downloader        *)
(* (download_all) and the entry point (main).                              *)
(*                                                                         *)
(* Python strings are sequences of one-character strings, so that the      *)
(* substring tests, the regular expression searches, the slices and the    *)
(* strips of the source are computed character by character.               *)
(***************************************************************************)
EXTENDS Integers, Sequences, FiniteSets, TLC

VARIABLES
    c_pc, c_url, c_out,          \* classifier run: position, input URL, result
    s_pc, s_in, s_out,           \* sanitizer run: position, input name, result
    pc,                          \* main: the statement the run is at
    os_name,                     \* the platform the script runs on
    page,                        \* the browser page: its URL, and what it shows
    anchors, urls,               \* collect_module_file_links: hrefs read, URLs kept
    i, ok, fail,                 \* download_all: loop index and counters
    u, resp, dest,               \* the iteration's URL, response and destination
    dest_before,                 \* the file at dest when the iteration looked at it
    fs,                          \* the download directory: name -> file
    open,                        \* resources acquired and not yet released
    gets,                        \* the URLs GET requests went to, in order
    log,                         \* the kinds of message printed so far
    setup_failure                \* which fatal setup failure the run met

cvars == <<c_pc, c_url, c_out>>
svars == <<s_pc, s_in, s_out>>
mvars == <<pc, os_name, page, anchors, urls, i, ok, fail, u, resp, dest, dest_before, fs, open, gets, log, setup_failure>>
vars == <<cvars, svars, mvars>>

-----------------------------------------------------------------------------
(* Python string primitives *)

\* s[i:j] with 1-based inclusive bounds, empty when the range is empty
Slice(s, lo, hi) == IF lo > hi THEN <<>> ELSE SubSeq(s, lo, hi)

\* sub occurs in s at index k
MatchAt(s, sub, k) == k >= 1 /\ k + Len(sub) - 1 <= Len(s) /\ SubSeq(s, k, k + Len(sub) - 1) = sub

\* `sub in s`
Contains(s, sub) == \E k \in 1..Len(s) + 1 : MatchAt(s, sub, k)

\* s.endswith(suf)
EndsWith(s, suf) == Len(suf) <= Len(s) /\ SubSeq(s, Len(s) - Len(suf) + 1, Len(s)) = suf

\* s.startswith(pre)
StartsWith(s, pre) == Len(pre) <= Len(s) /\ SubSeq(s, 1, Len(pre)) = pre

\* least index of s holding a character of set cs, or Len(s) + 1
FirstOf(s, cs) == IF \E k \in 1..Len(s) : s[k] \in cs THEN CHOOSE k \in 1..Len(s) : s[k] \in cs /\ \A j \in 1..k - 1 : s[j] \notin cs ELSE Len(s) + 1

\* greatest index of s holding a character of set cs, or 0
LastOf(s, cs) == IF \E k \in 1..Len(s) : s[k] \in cs THEN CHOOSE k \in 1..Len(s) : s[k] \in cs /\ \A j \in k + 1..Len(s) : s[j] \notin cs ELSE 0

UpperLetters == <<"A", "B", "C", "D", "E", "F", "G", "H", "I", "J", "K", "L", "M", "N", "O", "P", "Q", "R", "S", "T", "U", "V", "W", "X", "Y", "Z">>

LowerLetters == <<"a", "b", "c", "d", "e", "f", "g", "h", "i", "j", "k", "l", "m", "n", "o", "p", "q", "r", "s", "t", "u", "v", "w", "x", "y", "z">>

Digits == {"0", "1", "2", "3", "4", "5", "6", "7", "8", "9"}

LowerChar(c) == IF \E n \in 1..26 : UpperLetters[n] = c THEN LowerLetters[CHOOSE n \in 1..26 : UpperLetters[n] = c] ELSE c

\* s.lower()
Lower(s) == [k \in 1..Len(s) |-> LowerChar(s[k])]

\* s.split("?")[0] and s.split("?", 1)[0]: the text before the first "?"
BeforeQuery(s) == Slice(s, 1, FirstOf(s, {"?"}) - 1)

\* Python's None against a str value
None == [some |-> FALSE, val |-> <<>>]

Some(s) == [some |-> TRUE, val |-> s]

-----------------------------------------------------------------------------
(* urllib.parse, as far as the program uses it *)

SchemeChars == {UpperLetters[n] : n \in 1..26} \cup {LowerLetters[n] : n \in 1..26} \cup Digits \cup {"+", "-", "."}

\* index of the ":" ending a URL scheme at the first ":" k of url, or 0
SchemeEndAt(url, k) == IF k > 1 /\ k <= Len(url) /\ url[1] \notin Digits /\ (\A j \in 1..k - 1 : url[j] \in SchemeChars) THEN k ELSE 0

SchemeEnd(url) == SchemeEndAt(url, FirstOf(url, {":"}))

\* urlsplit, last step: path and query are cut at the "?" at index q
UrlParts(scheme, netloc, rest, q) == [scheme |-> scheme, netloc |-> netloc, path |-> Slice(rest, 1, q - 1), query |-> Slice(rest, q + 1, Len(rest))]

\* urlsplit: the fragment is cut off at the first "#"
UrlCutFragment(scheme, netloc, rest, f) == UrlParts(scheme, netloc, Slice(rest, 1, f - 1), FirstOf(Slice(rest, 1, f - 1), {"?"}))

\* urlsplit: the netloc runs from after "//" to the first "/", "?" or "#"
UrlCutNetloc(scheme, rest, e) == UrlCutFragment(scheme, Slice(rest, 1, e - 1), Slice(rest, e, Len(rest)), FirstOf(Slice(rest, e, Len(rest)), {"#"}))

\* urlsplit: what follows the scheme either starts with "//" and a netloc or is a path
UrlAfterScheme(scheme, rest) == IF StartsWith(rest, <<"/", "/">>) THEN UrlCutNetloc(scheme, Slice(rest, 3, Len(rest)), FirstOf(Slice(rest, 3, Len(rest)), {"/", "?", "#"})) ELSE UrlCutFragment(scheme, <<>>, rest, FirstOf(rest, {"#"}))

UrlAfterSchemeEnd(url, se) == UrlAfterScheme(Lower(Slice(url, 1, se - 1)), Slice(url, se + 1, Len(url)))

\* urlparse(url): scheme, netloc, path and query as urlsplit cuts them
urlparse(url) == UrlAfterSchemeEnd(url, SchemeEnd(url))

\* the netloc n without userinfo and port, lower-cased
HostOfNetloc(n, at) == Lower(Slice(n, at + 1, FirstOf(Slice(n, at + 1, Len(n)), {":"}) + at - 1))

\* ParseResult.hostname
hostname(url) == HostOfNetloc(urlparse(url).netloc, LastOf(urlparse(url).netloc, {"@"}))

\* urlunparse((scheme, netloc, path, params, query, fragment))
urlunparse(scheme, netloc, path, params, query, fragment) ==
    LET p1 == IF params # <<>> THEN path \o <<";">> \o params ELSE path
        p2 == IF netloc # <<>> THEN <<"/", "/">> \o netloc \o (IF p1 # <<>> /\ p1[1] # "/" THEN <<"/">> ELSE <<>>) \o p1 ELSE p1
        p3 == IF scheme # <<>> THEN scheme \o <<":">> \o p2 ELSE p2
        p4 == IF query # <<>> THEN p3 \o <<"?">> \o query ELSE p3
    IN  IF fragment # <<>> THEN p4 \o <<"#">> \o fragment ELSE p4

-----------------------------------------------------------------------------
(* Configuration *)

COURSE_URL == <<"h", "t", "t", "p", "s", ":", "/", "/", "l", "i", "v", "e", "r", "p", "o", "o", "l", ".", "i", "n", "s", "t", "r", "u", "c", "t", "u", "r", "e", ".", "c", "o", "m", "/", "c", "o", "u", "r", "s", "e", "s", "/", "8", "3", "6", "7", "1">>

ALLOWED_EXT == {<<".", "p", "d", "f">>, <<".", "t", "x", "t">>, <<".", "d", "o", "c">>, <<".", "d", "o", "c", "x">>, <<".", "p", "p", "t">>, <<".", "p", "p", "t", "x">>, <<".", "x", "l", "s">>, <<".", "x", "l", "s", "x">>, <<".", "z", "i", "p">>}

BASE_HOST == hostname(COURSE_URL)

-----------------------------------------------------------------------------
(* to_download_url *)

DownloadMarker == <<"/", "d", "o", "w", "n", "l", "o", "a", "d">>

FilesPrefix == <<"/", "f", "i", "l", "e", "s", "/">>

ForcedQuery == <<"d", "o", "w", "n", "l", "o", "a", "d", "_", "f", "r", "d", "=", "1">>

\* start indexes of the matches of /files/(\d+) in url
FileIdMatches(url) == {k \in 1..Len(url) : MatchAt(url, FilesPrefix, k) /\ k + 7 <= Len(url) /\ url[k + 7] \in Digits}

\* re.search(r"/files/(\d+)", url) finds something
HasFileId(url) == FileIdMatches(url) # {}

\* m.group(1): the longest run of digits after the leftmost "/files/" that has one
FileId(url) ==
    LET k == CHOOSE k \in FileIdMatches(url) : \A j \in FileIdMatches(url) : k <= j
        tail == Slice(url, k + 7, Len(url))
        stop == IF \E j \in 1..Len(tail) : tail[j] \notin Digits THEN CHOOSE j \in 1..Len(tail) : tail[j] \notin Digits /\ \A n \in 1..j - 1 : tail[n] \in Digits ELSE Len(tail) + 1
    IN  Slice(tail, 1, stop - 1)

\* the test of line 68: the URL before its query ends in an allow-listed extension
HasAllowedExt(url) == \E ext \in ALLOWED_EXT : EndsWith(BeforeQuery(Lower(url)), ext)

\* to_download_url building the canonical URL on the netloc of its input
to_download_url_on_input_host(url) ==
    IF Contains(url, DownloadMarker) THEN Some(url)
    ELSE IF HasFileId(url) THEN Some(urlunparse(<<"h", "t", "t", "p", "s">>, urlparse(url).netloc, FilesPrefix \o FileId(url) \o DownloadMarker, <<>>, ForcedQuery, <<>>))
    ELSE IF HasAllowedExt(url) THEN Some(url)
    ELSE None

to_download_url(url) ==
    IF Contains(url, DownloadMarker) THEN Some(url)
    ELSE IF HasFileId(url) THEN Some(urlunparse(<<"h", "t", "t", "p", "s">>, BASE_HOST, FilesPrefix \o FileId(url) \o DownloadMarker, <<>>, ForcedQuery, <<>>))
    ELSE IF HasAllowedExt(url) THEN Some(url)
    ELSE None

-----------------------------------------------------------------------------
(* Classifier runs: one URL is drawn, then classified *)

MaxSegs == 3

OtherHost == <<"e", "v", "i", "l", ".", "e", "x", "a", "m", "p", "l", "e", ".", "c", "o", "m">>

SegCourse == <<"/", "c", "o", "u", "r", "s", "e", "s", "/", "1">>

SegFile55 == <<"/", "f", "i", "l", "e", "s", "/", "5", "5">>

SegFile7x == <<"/", "f", "i", "l", "e", "s", "/", "7", "x">>

SegPreview == <<"/", "p", "r", "e", "v", "i", "e", "w">>

SegPdf == <<"/", "n", "o", "t", "e", "s", ".", "p", "d", "f">>

SegPdfUpper == <<"/", "N", "O", "T", "E", "S", ".", "P", "D", "F">>

QueryWrap == <<"?", "w", "r", "a", "p", "=", "1">>

QueryFileRef == <<"?", "n", "e", "x", "t", "=", "/", "f", "i", "l", "e", "s", "/", "9">>

UrlSchemes == {<<"h", "t", "t", "p", "s">>, <<"h", "t", "t", "p">>}

UrlHosts == {BASE_HOST, OtherHost}

UrlSegs == {SegCourse, SegFile55, SegFile7x, DownloadMarker, SegPreview, SegPdf, SegPdfUpper}

UrlQueries == {<<>>, QueryWrap, QueryFileRef}

RECURSIVE UrlPaths(_)
UrlPaths(n) == IF n = 0 THEN {<<>>} ELSE UrlPaths(n - 1) \cup {p \o g : p \in UrlPaths(n - 1), g \in UrlSegs}

InputUrls == {sc \o <<":", "/", "/">> \o h \o p \o q : sc \in UrlSchemes, h \in UrlHosts, p \in UrlPaths(MaxSegs), q \in UrlQueries}

ClassifyIdle == c_pc = "idle" /\ c_url = <<>> /\ c_out = None

\* the call dl = to_download_url(href)
Classify == c_pc = "call" /\ c_out' = to_download_url(c_url) /\ c_pc' = "done" /\ UNCHANGED <<c_url, svars, mvars>>

-----------------------------------------------------------------------------
(* sanitize_filename *)

MaxNameLen == 220

IllegalChars == {"<", ">", ":", "\"", "/", "\\", "|", "?", "*"}

\* the characters str.strip() removes, among those the inputs hold
Whitespace == {" ", "\t", "\n", "\r"}

\* re.sub(r'[<>:"/\\|?*]', "_", name)
ReplaceIllegal(name) == [k \in 1..Len(name) |-> IF name[k] \in IllegalChars THEN "_" ELSE name[k]]

\* s.strip(chars): leading and trailing characters of set cs removed
Strip(s, cs) ==
    LET lo == CHOOSE k \in 1..Len(s) : s[k] \notin cs /\ \A j \in 1..k - 1 : s[j] \in cs
        hi == CHOOSE k \in 1..Len(s) : s[k] \notin cs /\ \A j \in k + 1..Len(s) : s[j] \in cs
    IN  IF \A k \in 1..Len(s) : s[k] \in cs THEN <<>> ELSE SubSeq(s, lo, hi)

\* s[:n], n of either sign
Prefix(s, n) == IF n >= 0 THEN Slice(s, 1, IF n < Len(s) THEN n ELSE Len(s)) ELSE Slice(s, 1, Len(s) + n)

\* os.path.splitext(p) with the path separators seps: <<root, ext>>
splitext(p, seps) ==
    LET sepIndex == LastOf(p, seps)
        dotIndex == LastOf(p, {"."})
    IN  IF dotIndex > sepIndex /\ (\E k \in sepIndex + 1..dotIndex - 1 : p[k] # ".") THEN <<Slice(p, 1, dotIndex - 1), Slice(p, dotIndex, Len(p))>> ELSE <<p, <<>>>>

PathSeps == {"/", "\\"}

FallbackName == <<"f", "i", "l", "e">>

sanitize_filename(name0) ==
    LET name == Strip(Strip(ReplaceIllegal(name0), Whitespace), {".", " "})
        re == splitext(name, PathSeps)
    IN  IF Len(name) > MaxNameLen THEN Prefix(re[1], MaxNameLen - Len(re[2])) \o re[2]
        ELSE IF name # <<>> THEN name ELSE FallbackName

-----------------------------------------------------------------------------
(* Sanitizer runs: a name is drawn as a few runs of one character, then sanitized *)

MaxRuns == 3

RunChars == {"a", ".", " ", "\t", "?"}

RunLengths == {1, 219, 230}

RECURSIVE Repeat(_, _)
Repeat(c, n) == IF n = 0 THEN <<>> ELSE IF n = 1 THEN <<c>> ELSE LET h == Repeat(c, n \div 2) IN h \o h \o (IF n % 2 = 1 THEN <<c>> ELSE <<>>)

RECURSIVE RunNames(_)
RunNames(n) == IF n = 0 THEN {<<>>} ELSE RunNames(n - 1) \cup {p \o Repeat(c, k) : p \in RunNames(n - 1), c \in RunChars, k \in RunLengths}

SanitizeIdle == s_pc = "idle" /\ s_in = <<>> /\ s_out = <<>>

\* the call sanitize_filename(name)
Sanitize == s_pc = "call" /\ s_out' = sanitize_filename(s_in) /\ s_pc' = "done" /\ UNCHANGED <<s_in, cvars, mvars>>

-----------------------------------------------------------------------------
(* os.path and pathlib, as far as the program uses them *)

\* os.sep and os.altsep of the platform the script runs on
SepsOf(os) == IF os = "nt" THEN {"/", "\\"} ELSE {"/"}

\* os.path.basename(p), drive prefixes aside
basename(p, seps) == Slice(p, LastOf(p, seps) + 1, Len(p))

\* PurePath.suffix of a file name
PathSuffix(name) == LET k == LastOf(name, {"."}) IN IF k > 1 /\ k < Len(name) THEN Slice(name, k, Len(name)) ELSE <<>>

\* PurePath.with_suffix(suffix) on a file name
with_suffix(name, suffix) == Slice(name, 1, Len(name) - Len(PathSuffix(name))) \o suffix

\* a download written in place: the temporary path is the destination itself
tmp_path_in_place(path) == path

\* tmp_path = dest.with_suffix(dest.suffix + ".part")
tmp_path(path) == with_suffix(path, PathSuffix(path) \o <<".", "p", "a", "r", "t">>)

-----------------------------------------------------------------------------
(* derive_filename *)

\* a header the response does not carry
NoHeader == None

\* the longest run of characters outside cs that starts at index p of s
RunOutside(s, p, cs) == LET tail == Slice(s, p, Len(s)) IN Slice(tail, 1, FirstOf(tail, cs) - 1)

\* where group 1 of filename\*?=(?:UTF-8\'\')?"?([^";]+)"? starts when the match
\* starts at index k of cd, or 0 when there is no match at k; the optional parts
\* are taken greedily and given back in the order the regex engine gives them back
CdGroupStart(cd, k) ==
    LET p0 == k + 8
        p1 == IF p0 <= Len(cd) /\ cd[p0] = "*" THEN p0 + 1 ELSE p0
        p2 == p1 + 1
        pu == IF MatchAt(cd, <<"U", "T", "F", "-", "8", "'", "'">>, p2) THEN p2 + 7 ELSE p2
        quoted(p) == IF p <= Len(cd) /\ cd[p] = "\"" THEN p + 1 ELSE p
        good(p) == p <= Len(cd) /\ cd[p] \notin {"\"", ";"}
    IN  IF ~(MatchAt(cd, <<"f", "i", "l", "e", "n", "a", "m", "e">>, k) /\ p1 <= Len(cd) /\ cd[p1] = "=") THEN 0
        ELSE IF good(quoted(pu)) THEN quoted(pu)
        ELSE IF good(pu) THEN pu
        ELSE IF good(quoted(p2)) THEN quoted(p2)
        ELSE IF good(p2) THEN p2
        ELSE 0

\* m.group(1) of re.search on the Content-Disposition value, or None
CdFilename(cd) ==
    LET ks == {k \in 1..Len(cd) : CdGroupStart(cd, k) # 0}
        k0 == CHOOSE k \in ks : \A j \in ks : k <= j
    IN  IF ks = {} THEN None ELSE Some(RunOutside(cd, CdGroupStart(cd, k0), {"\"", ";"}))

\* the name the fallback branch builds from the URL and the Content-Type
UrlFilename(ctype, fallback_url, seps) ==
    LET name == basename(urlparse(fallback_url).path, seps)
    IN  IF splitext(name, seps)[2] # <<>> THEN name
        ELSE IF Contains(Lower(ctype), <<"p", "d", "f">>) THEN name \o <<".", "p", "d", "f">>
        ELSE IF Contains(Lower(ctype), <<"t", "e", "x", "t", "/", "p", "l", "a", "i", "n">>) THEN name \o <<".", "t", "x", "t">>
        ELSE name

\* derive_filename(resp, fallback_url) for a response with headers
\* Content-Disposition resp.cd and Content-Type resp.ctype (None when absent)
derive_filename(r, fallback_url, seps) ==
    LET cd == IF r.cd.some THEN r.cd.val ELSE <<>>
        ctype == IF r.ctype.some THEN r.ctype.val ELSE <<>>
        name == UrlFilename(ctype, fallback_url, seps)
    IN  IF cd # <<>> /\ CdFilename(cd).some THEN sanitize_filename(basename(CdFilename(cd).val, seps))
        ELSE sanitize_filename(IF name # <<>> THEN name ELSE FallbackName)

-----------------------------------------------------------------------------
(* collect_module_file_links and the filter of main *)

\* the test of line 129: the href is empty, or absolute and without the host name
SkippedHref(href) == href = <<>> \/ (~Contains(href, BASE_HOST) /\ StartsWith(href, <<"h", "t", "t", "p">>))

\* lines 127-133: the classified URL of every anchor that has one, in page order
RECURSIVE ClassifiedUrls(_)
ClassifiedUrls(hrefs) ==
    IF hrefs = <<>> THEN <<>>
    ELSE LET dl == to_download_url(Head(hrefs))
         IN  (IF ~SkippedHref(Head(hrefs)) /\ dl.some /\ dl.val # <<>> THEN <<dl.val>> ELSE <<>>) \o ClassifiedUrls(Tail(hrefs))

\* lines 135-136: [u for u in urls if not (u in seen or seen.add(u))]
RECURSIVE DedupFrom(_, _)
DedupFrom(us, seen) ==
    IF us = <<>> THEN <<>>
    ELSE IF Head(us) \in seen THEN DedupFrom(Tail(us), seen)
    ELSE <<Head(us)>> \o DedupFrom(Tail(us), seen \cup {Head(us)})

\* no deduplication: every classified URL is kept
DedupKeepsAll(us) == us

Dedup(us) == DedupFrom(us, {})

\* the return value of collect_module_file_links for the anchors of the page
CollectedUrls(hrefs) == Dedup(ClassifiedUrls(hrefs))

\* the test of line 218 on one URL
KeptUrl(url) == \E ext \in ALLOWED_EXT : EndsWith(BeforeQuery(Lower(url)), ext) \/ Contains(url, DownloadMarker)

\* line 218: urls = [u for u in urls if any(...)]
FilteredUrls(us) == SelectSeq(us, KeptUrl)

\* lines 145-146: the URL the GET is sent to
RequestUrl(url) == IF StartsWith(url, <<"/", "/">>) THEN <<"h", "t", "t", "p", "s", ":">> \o url ELSE IF StartsWith(url, <<"/">>) THEN <<"h", "t", "t", "p", "s", ":", "/", "/">> \o BASE_HOST \o url ELSE url

-----------------------------------------------------------------------------
(* The environment of one run of main: pages, anchors, responses, files *)

MaxAnchors == 3

MaxChunks == 2

USER_DATA_DIR == <<"C", ":", "\\", "U", "s", "e", "r", "s", "\\", "j", "o", "h", "n", "j", "\\", "A", "p", "p", "D", "a", "t", "a", "\\", "L", "o", "c", "a", "l", "\\", "P", "e", "r", "p", "l", "e", "x", "i", "t", "y", "\\", "C", "o", "m", "e", "t", "\\", "U", "s", "e", "r", " ", "D", "a", "t", "a">>

\* page.url values, with whether the page shown is a login page
Pages == {[url |-> COURSE_URL, login |-> FALSE], [url |-> <<"h", "t", "t", "p", "s", ":", "/", "/", "l", "i", "v", "e", "r", "p", "o", "o", "l", ".", "i", "n", "s", "t", "r", "u", "c", "t", "u", "r", "e", ".", "c", "o", "m", "/", "l", "o", "g", "i", "n", "/", "c", "a", "n", "v", "a", "s">>, login |-> TRUE], [url |-> <<"h", "t", "t", "p", "s", ":", "/", "/", "l", "i", "v", "e", "r", "p", "o", "o", "l", ".", "i", "n", "s", "t", "r", "u", "c", "t", "u", "r", "e", ".", "c", "o", "m", "/", "l", "o", "g", "i", "n", "/", "s", "a", "m", "l", "?", "r", "e", "t", "u", "r", "n", "_", "t", "o", "=", "/", "c", "o", "u", "r", "s", "e", "s", "/", "8", "3", "6", "7", "1">>, login |-> TRUE], [url |-> <<"h", "t", "t", "p", "s", ":", "/", "/", "l", "i", "v", "e", "r", "p", "o", "o", "l", ".", "i", "n", "s", "t", "r", "u", "c", "t", "u", "r", "e", ".", "c", "o", "m", "/">>, login |-> FALSE]}

NoPage == [url |-> <<>>, login |-> FALSE]

\* e.href values of the anchors of a page
Hrefs == {<<"h", "t", "t", "p", "s", ":", "/", "/", "l", "i", "v", "e", "r", "p", "o", "o", "l", ".", "i", "n", "s", "t", "r", "u", "c", "t", "u", "r", "e", ".", "c", "o", "m", "/", "c", "o", "u", "r", "s", "e", "s", "/", "8", "3", "6", "7", "1", "/", "f", "i", "l", "e", "s", "/", "5", "5">>, <<"h", "t", "t", "p", "s", ":", "/", "/", "l", "i", "v", "e", "r", "p", "o", "o", "l", ".", "i", "n", "s", "t", "r", "u", "c", "t", "u", "r", "e", ".", "c", "o", "m", "/", "c", "o", "u", "r", "s", "e", "s", "/", "8", "3", "6", "7", "1", "/", "f", "i", "l", "e", "s", "/", "5", "5", "/", "p", "r", "e", "v", "i", "e", "w">>, <<"h", "t", "t", "p", "s", ":", "/", "/", "l", "i", "v", "e", "r", "p", "o", "o", "l", ".", "i", "n", "s", "t", "r", "u", "c", "t", "u", "r", "e", ".", "c", "o", "m", "/", "n", "o", "t", "e", "s", ".", "p", "d", "f">>, <<"h", "t", "t", "p", "s", ":", "/", "/", "l", "i", "v", "e", "r", "p", "o", "o", "l", ".", "i", "n", "s", "t", "r", "u", "c", "t", "u", "r", "e", ".", "c", "o", "m", "/", "c", "o", "u", "r", "s", "e", "s", "/", "8", "3", "6", "7", "1", "/", "m", "o", "d", "u", "l", "e", "s", "/", "i", "t", "e", "m", "s", "/", "3">>, <<"h", "t", "t", "p", "s", ":", "/", "/", "e", "v", "i", "l", ".", "e", "x", "a", "m", "p", "l", "e", ".", "c", "o", "m", "/", "s", "l", "i", "d", "e", "s", ".", "p", "d", "f">>}

RECURSIVE AnchorLists(_)
AnchorLists(n) == IF n = 0 THEN {<<>>} ELSE AnchorLists(n - 1) \cup {Append(a, h) : a \in AnchorLists(n - 1), h \in Hrefs}

DigitSeq == <<"0", "1", "2", "3", "4", "5", "6", "7", "8", "9">>

\* str(n) for n >= 0
RECURSIVE Str(_)
Str(n) == IF n < 10 THEN <<DigitSeq[n + 1]>> ELSE Str(n \div 10) \o <<DigitSeq[(n % 10) + 1]>>

\* int(s) for a string of digits
RECURSIVE ToInt(_)
ToInt(s) == IF s = <<>> THEN 0 ELSE 10 * ToInt(Slice(s, 1, Len(s) - 1)) + (CHOOSE k \in 0..9 : DigitSeq[k + 1] = s[Len(s)])

\* the responses a GET can bring: headers (None when absent) and a body of
\* total chunks, each chunk one unit of size
Responses == UNION {{[cd |-> cd, ctype |-> ct, clen |-> cl, total |-> n] : cd \in {NoHeader, Some(<<"a", "t", "t", "a", "c", "h", "m", "e", "n", "t", ";", " ", "f", "i", "l", "e", "n", "a", "m", "e", "=", "\"", "a", ".", "p", "d", "f", "\"">>)}, ct \in {Some(<<"a", "p", "p", "l", "i", "c", "a", "t", "i", "o", "n", "/", "p", "d", "f">>)}, cl \in {NoHeader, Some(Str(n))}} : n \in 1..MaxChunks}

NoResponse == [cd |-> NoHeader, ctype |-> NoHeader, clen |-> NoHeader, total |-> 0]

\* a file: the URL its bytes came from (empty for a file of an earlier run), the
\* size of the body it is a copy of, and its own size
Absent == [exists |-> FALSE, from |-> <<>>, total |-> 0, have |-> 0]

EarlierFile(n) == [exists |-> TRUE, from |-> <<>>, total |-> n, have |-> n]

NewFile(url, total, have) == [exists |-> TRUE, from |-> url, total |-> total, have |-> have]

\* every URL the collector can return, and every name a download can get
Targets == {to_download_url(h).val : h \in {x \in Hrefs : ~SkippedHref(x) /\ to_download_url(x).some}}

FinalNames == {derive_filename(r, RequestUrl(t), SepsOf(o)) : r \in Responses, t \in Targets, o \in {"posix", "nt"}}

FsNames == FinalNames \cup {tmp_path(n) : n \in FinalNames}

\* the download directory before the run: empty, or as an earlier run left it,
\* a file of one size under every final name
InitialFs == {[n \in FsNames |-> Absent]} \cup {[n \in FsNames |-> IF n \in FinalNames THEN EarlierFile(k) ELSE Absent] : k \in 1..MaxChunks}

-----------------------------------------------------------------------------
(* Python values of different types, for the == of line 154 *)

PyInt(n) == [type |-> "int", int |-> n, str |-> <<>>]

PyStr(s) == [type |-> "str", int |-> 0, str |-> s]

PyNone == [type |-> "NoneType", int |-> 0, str |-> <<>>]

\* a == b: an int, a str and None are never equal to one another
PyEq(a, b) == a.type = b.type /\ a.int = b.int /\ a.str = b.str

\* r.headers.get(name): the header's text, or None
HeaderGet(h) == IF h.some THEN PyStr(h.val) ELSE PyNone

-----------------------------------------------------------------------------
(* main, lines 175-238 *)

MainIdle == pc = "idle" /\ os_name = "posix" /\ page = NoPage /\ anchors = <<>> /\ urls = <<>> /\ i = 0 /\ ok = 0 /\ fail = 0 /\ u = <<>> /\ resp = NoResponse /\ dest = None /\ dest_before = Absent /\ fs = [n \in FsNames |-> Absent] /\ open = {} /\ gets = <<>> /\ log = {} /\ setup_failure = "none"

MainStart == pc = "start" /\ os_name \in {"posix", "nt"} /\ page = NoPage /\ anchors = <<>> /\ urls = <<>> /\ i = 0 /\ ok = 0 /\ fail = 0 /\ u = <<>> /\ resp = NoResponse /\ dest = None /\ dest_before = Absent /\ fs \in InitialFs /\ open = {} /\ gets = <<>> /\ log = {} /\ setup_failure = "none"

\* lines 177-186: the configuration checks, then `with sync_playwright() as p`
Start ==
    /\ pc = "start"
    /\ IF ~Contains(COURSE_URL, <<"i", "n", "s", "t", "r", "u", "c", "t", "u", "r", "e", ".", "c", "o", "m">>) THEN pc' = "exit" /\ log' = log \cup {"set COURSE_URL"} /\ open' = open
       ELSE IF USER_DATA_DIR = <<>> THEN pc' = "exit" /\ log' = log \cup {"set USER_DATA_DIR"} /\ open' = open
       ELSE pc' = "launch" /\ log' = log /\ open' = open \cup {"playwright"}
    /\ UNCHANGED <<cvars, svars, os_name, page, anchors, urls, i, ok, fail, u, resp, dest, dest_before, fs, gets, setup_failure>>

\* lines 188-192: launch_persistent_context returns
LaunchOk ==
    /\ pc = "launch"
    /\ pc' = "goto"
    /\ open' = open \cup {"browser_ctx"}
    /\ UNCHANGED <<cvars, svars, os_name, page, anchors, urls, i, ok, fail, u, resp, dest, dest_before, fs, gets, log, setup_failure>>

\* lines 193-199: launch_persistent_context raises; main returns, the with ends
LaunchFail ==
    /\ pc = "launch"
    /\ pc' = "exit"
    /\ log' = log \cup {"Error launching browser"}
    /\ open' = open \ {"playwright"}
    /\ setup_failure' = "launch"
    /\ UNCHANGED <<cvars, svars, os_name, page, anchors, urls, i, ok, fail, u, resp, dest, dest_before, fs, gets>>

\* lines 202-205: page.goto(COURSE_URL) lands on some page
GotoOk ==
    /\ pc = "goto"
    /\ \E p \in Pages : page' = p
    /\ pc' = "check_login"
    /\ UNCHANGED <<cvars, svars, os_name, anchors, urls, i, ok, fail, u, resp, dest, dest_before, fs, open, gets, log, setup_failure>>

\* line 205: page.goto raises (timeout, network)
GotoFail ==
    /\ pc = "goto"
    /\ pc' = "except"
    /\ setup_failure' = "goto"
    /\ UNCHANGED <<cvars, svars, os_name, page, anchors, urls, i, ok, fail, u, resp, dest, dest_before, fs, open, gets, log>>

\* line 207: is a manual login asked for
CheckLogin ==
    /\ pc = "check_login"
    /\ IF Contains(Lower(page.url), <<"l", "o", "g", "i", "n">>) \/ ~Contains(page.url, <<"c", "o", "u", "r", "s", "e", "s">>) THEN pc' = "input" ELSE pc' = "check_course"
    /\ UNCHANGED <<cvars, svars, os_name, page, anchors, urls, i, ok, fail, u, resp, dest, dest_before, fs, open, gets, log, setup_failure>>

\* lines 208-211: input() returns; the user has logged in, or has not, and the
\* page is wherever they left it
Input ==
    /\ pc = "input"
    /\ \E p \in Pages : page' = p
    /\ setup_failure' = IF page'.login THEN "login" ELSE setup_failure
    /\ pc' = "check_course"
    /\ UNCHANGED <<cvars, svars, os_name, anchors, urls, i, ok, fail, u, resp, dest, dest_before, fs, open, gets, log>>

\* lines 213-215
CheckCourse ==
    /\ pc = "check_course"
    /\ IF ~Contains(page.url, <<"c", "o", "u", "r", "s", "e", "s">>) THEN pc' = "finally" /\ log' = log \cup {"Error: Could not navigate to the course page"} ELSE pc' = "collect" /\ log' = log
    /\ UNCHANGED <<cvars, svars, os_name, page, anchors, urls, i, ok, fail, u, resp, dest, dest_before, fs, open, gets, setup_failure>>

\* line 217, lines 102-136: collect_module_file_links reads the anchors of the
\* page and returns the classified, deduplicated URLs
Collect ==
    /\ pc = "collect"
    /\ \E a \in AnchorLists(MaxAnchors) : anchors' = a
    /\ urls' = CollectedUrls(anchors')
    /\ pc' = "collected"
    /\ UNCHANGED <<cvars, svars, os_name, page, i, ok, fail, u, resp, dest, dest_before, fs, open, gets, log, setup_failure>>

\* line 110 or 125: wait_for_load_state or eval_on_selector_all raises
CollectFail ==
    /\ pc = "collect"
    /\ pc' = "except"
    /\ UNCHANGED <<cvars, svars, os_name, page, anchors, urls, i, ok, fail, u, resp, dest, dest_before, fs, open, gets, log, setup_failure>>

\* lines 218-224: the filter, and the return when nothing is left
FilterUrls ==
    /\ pc = "collected"
    /\ urls' = FilteredUrls(urls)
    /\ anchors' = <<>>
    /\ IF urls' = <<>> THEN pc' = "finally" /\ log' = log \cup {"No downloadable files found"} ELSE pc' = "session" /\ log' = log
    /\ UNCHANGED <<cvars, svars, os_name, page, i, ok, fail, u, resp, dest, dest_before, fs, open, gets, setup_failure>>

\* line 225, lines 88-100: build_requests_session_from_context
BuildSession ==
    /\ pc = "session"
    /\ open' = open \cup {"session"}
    /\ pc' = "mkdir"
    /\ UNCHANGED <<cvars, svars, os_name, page, anchors, urls, i, ok, fail, u, resp, dest, dest_before, fs, gets, log, setup_failure>>

\* lines 233-234: except Exception
Except ==
    /\ pc = "except"
    /\ log' = log \cup {"An unexpected error occurred"}
    /\ pc' = "finally"
    /\ UNCHANGED <<cvars, svars, os_name, page, anchors, urls, i, ok, fail, u, resp, dest, dest_before, fs, open, gets, setup_failure>>

\* lines 236-238, and the end of the with of line 186
Finally ==
    /\ pc = "finally"
    /\ open' = open \ {"browser_ctx", "playwright"}
    /\ pc' = "exit"
    /\ UNCHANGED <<cvars, svars, os_name, page, anchors, urls, i, ok, fail, u, resp, dest, dest_before, fs, gets, log, setup_failure>>

-----------------------------------------------------------------------------
(* download_all, lines 138-173 *)

\* line 140: out_dir.mkdir, then the loop starts
Mkdir ==
    /\ pc = "mkdir"
    /\ i' = 1 /\ ok' = 0 /\ fail' = 0
    /\ pc' = "loop"
    /\ UNCHANGED <<cvars, svars, os_name, page, anchors, urls, u, resp, dest, dest_before, fs, open, gets, log, setup_failure>>

\* line 140: out_dir.mkdir raises, outside the loop's try
MkdirFail ==
    /\ pc = "mkdir"
    /\ pc' = "except"
    /\ UNCHANGED <<cvars, svars, os_name, page, anchors, urls, i, ok, fail, u, resp, dest, dest_before, fs, open, gets, log, setup_failure>>

\* lines 143-146 and 173: the next target, or the summary and the return to main
LoopNext ==
    /\ pc = "loop"
    /\ IF i <= Len(urls) THEN pc' = "get" /\ u' = RequestUrl(urls[i]) /\ log' = log ELSE pc' = "finally" /\ u' = <<>> /\ log' = log \cup {"Done"}
    /\ UNCHANGED <<cvars, svars, os_name, page, anchors, urls, i, ok, fail, resp, dest, dest_before, fs, open, gets, setup_failure>>

\* lines 149-150: the GET brings a response with a success status
GetOk ==
    /\ pc = "get"
    /\ gets' = Append(gets, u)
    /\ \E r \in Responses : resp' = r
    /\ open' = open \cup {"response"}
    /\ pc' = "check"
    /\ UNCHANGED <<cvars, svars, os_name, page, anchors, urls, i, ok, fail, u, dest, dest_before, fs, log, setup_failure>>

\* lines 149-150: the GET fails, or raise_for_status raises on the status
GetFail ==
    /\ pc = "get"
    /\ gets' = Append(gets, u)
    /\ pc' = "failed"
    /\ UNCHANGED <<cvars, svars, os_name, page, anchors, urls, i, ok, fail, u, resp, dest, dest_before, fs, open, log, setup_failure>>

\* the test of line 154: dest.exists() and dest.stat().st_size == r.headers.get('Content-Length')
ExistsWithDeclaredSize(file, r) == file.exists /\ PyEq(PyInt(file.have), HeaderGet(r.clen))

\* lines 151-157: the name, the destination, and the skip of a file already there
CheckExisting ==
    /\ pc = "check"
    /\ dest' = Some(derive_filename(resp, u, SepsOf(os_name)))
    /\ dest_before' = fs[dest'.val]
    /\ IF ExistsWithDeclaredSize(fs[dest'.val], resp)
       THEN pc' = "loop" /\ log' = log \cup {"SKIPPED"} /\ ok' = ok + 1 /\ i' = i + 1 /\ open' = open \ {"response"}
       ELSE pc' = "open_tmp" /\ log' = log /\ ok' = ok /\ i' = i /\ open' = open
    /\ UNCHANGED <<cvars, svars, os_name, page, anchors, urls, fail, u, resp, fs, gets, setup_failure>>

\* lines 159-160: open(tmp_path, "wb") creates or empties the temporary file
OpenTmp ==
    /\ pc = "open_tmp"
    /\ fs' = [fs EXCEPT ![tmp_path(dest.val)] = NewFile(u, resp.total, 0)]
    /\ open' = open \cup {"file"}
    /\ pc' = "stream"
    /\ UNCHANGED <<cvars, svars, os_name, page, anchors, urls, i, ok, fail, u, resp, dest, dest_before, gets, log, setup_failure>>

\* line 160: open raises; the with of line 149 closes the response
OpenTmpFail ==
    /\ pc = "open_tmp"
    /\ open' = open \ {"response"}
    /\ pc' = "failed"
    /\ UNCHANGED <<cvars, svars, os_name, page, anchors, urls, i, ok, fail, u, resp, dest, dest_before, fs, gets, log, setup_failure>>

\* lines 161-162: one chunk of the body is written to the temporary file
WriteChunk ==
    /\ pc = "stream"
    /\ fs[tmp_path(dest.val)].have < resp.total
    /\ fs' = [fs EXCEPT ![tmp_path(dest.val)].have = @ + 1]
    /\ UNCHANGED <<cvars, svars, pc, os_name, page, anchors, urls, i, ok, fail, u, resp, dest, dest_before, open, gets, log, setup_failure>>

\* lines 161-162: iter_content or write raises; both with blocks close
StreamFail ==
    /\ pc = "stream"
    /\ fs[tmp_path(dest.val)].have < resp.total
    /\ open' = open \ {"file", "response"}
    /\ pc' = "failed"
    /\ UNCHANGED <<cvars, svars, os_name, page, anchors, urls, i, ok, fail, u, resp, dest, dest_before, fs, gets, log, setup_failure>>

\* line 160: the body is exhausted and the with closes the temporary file
CloseTmp ==
    /\ pc = "stream"
    /\ fs[tmp_path(dest.val)].have = resp.total
    /\ open' = open \ {"file"}
    /\ pc' = "rename"
    /\ UNCHANGED <<cvars, svars, os_name, page, anchors, urls, i, ok, fail, u, resp, dest, dest_before, fs, gets, log, setup_failure>>

\* line 163: tmp_path.rename(dest); on Windows it raises when dest exists
Rename ==
    /\ pc = "rename"
    /\ IF os_name = "nt" /\ fs[dest.val].exists
       THEN pc' = "failed" /\ fs' = fs /\ open' = open \ {"response"}
       ELSE pc' = "saved" /\ fs' = [fs EXCEPT ![dest.val] = fs[tmp_path(dest.val)], ![tmp_path(dest.val)] = Absent] /\ open' = open
    /\ UNCHANGED <<cvars, svars, os_name, page, anchors, urls, i, ok, fail, u, resp, dest, dest_before, gets, log, setup_failure>>

\* lines 164-165 and 172: SAVED is printed and counted, the response is closed
Saved ==
    /\ pc = "saved"
    /\ log' = log \cup {"SAVED"} /\ ok' = ok + 1 /\ i' = i + 1
    /\ open' = open \ {"response"}
    /\ dest' = None /\ dest_before' = Absent /\ resp' = NoResponse
    /\ pc' = "loop"
    /\ UNCHANGED <<cvars, svars, os_name, page, anchors, urls, fail, u, fs, gets, setup_failure>>

\* a failure that ends the loop instead of moving to the next target
HandleFailureAndStop ==
    /\ pc = "failed"
    /\ log' = log \cup {"FAILED"} /\ fail' = fail + 1 /\ i' = Len(urls) + 1
    /\ dest' = None /\ dest_before' = Absent /\ resp' = NoResponse
    /\ pc' = "loop"
    /\ UNCHANGED <<cvars, svars, os_name, page, anchors, urls, ok, u, fs, open, gets, setup_failure>>

\* lines 166-172: the except clauses count the failure and the loop goes on
HandleFailure ==
    /\ pc = "failed"
    /\ log' = log \cup {"FAILED"} /\ fail' = fail + 1 /\ i' = i + 1
    /\ dest' = None /\ dest_before' = Absent /\ resp' = NoResponse
    /\ pc' = "loop"
    /\ UNCHANGED <<cvars, svars, os_name, page, anchors, urls, ok, u, fs, open, gets, setup_failure>>

\* the process is interrupted during a transfer and runs no further statement
Kill ==
    /\ pc \in {"open_tmp", "stream", "rename", "saved"}
    /\ pc' = "killed"
    /\ UNCHANGED <<cvars, svars, os_name, page, anchors, urls, i, ok, fail, u, resp, dest, dest_before, fs, open, gets, log, setup_failure>>

-----------------------------------------------------------------------------
(* Specifications *)

InitClassify == c_pc = "call" /\ c_url \in InputUrls /\ c_out = None /\ SanitizeIdle /\ MainIdle

SpecClassify == InitClassify /\ [][Classify]_vars

InitSanitize == s_pc = "call" /\ s_in \in RunNames(MaxRuns) /\ s_out = <<>> /\ ClassifyIdle /\ MainIdle

SpecSanitize == InitSanitize /\ [][Sanitize]_vars

Init == MainStart /\ ClassifyIdle /\ SanitizeIdle

Next == Start \/ LaunchOk \/ LaunchFail \/ GotoOk \/ GotoFail \/ CheckLogin \/ Input \/ CheckCourse \/ Collect \/ CollectFail \/ FilterUrls \/ BuildSession \/ Except \/ Finally \/ Mkdir \/ MkdirFail \/ LoopNext \/ GetOk \/ GetFail \/ CheckExisting \/ OpenTmp \/ OpenTmpFail \/ WriteChunk \/ StreamFail \/ CloseTmp \/ Rename \/ Saved \/ HandleFailure \/ Kill

Spec == Init /\ [][Next]_vars

-----------------------------------------------------------------------------
(* Claims about to_download_url, under SpecClassify *)

\* C5: every URL whose host is not the configured host is classified None,
\* whatever its extension, download marker or file-identifier segment.
C5_CrossHostIsNone == (c_pc = "done" /\ hostname(c_url) # BASE_HOST) => c_out = None

\* the canonical download URL of file identifier id on host h
CanonicalUrl(h, id) == <<"h", "t", "t", "p", "s", ":", "/", "/">> \o h \o FilesPrefix \o id \o DownloadMarker \o <<"?">> \o ForcedQuery

PathHasAllowedExt(url) == \E ext \in ALLOWED_EXT : EndsWith(Lower(urlparse(url).path), ext)

\* C7: every URL whose path ends in an allow-listed extension is classified as a
\* target with the host and the path of the input, also when the path holds a
\* /files/<digits> segment.
C7_ExtPreservesHostAndPath == (c_pc = "done" /\ PathHasAllowedExt(c_url)) => (c_out.some /\ hostname(c_out.val) = hostname(c_url) /\ urlparse(c_out.val).path = urlparse(c_url).path)

-----------------------------------------------------------------------------
(* Claims about download_all, collect_module_file_links and main, under Spec *)

\* C1: download_all attempts every target once and in input order whatever
\* happened to earlier targets; a failure counts once and the loop goes on; at
\* the end succeeded + failed is the number of targets.
C1_EveryTargetAttemptedOnce == i >= 1 => (/\ Len(gets) <= Len(urls) /\ (\A k \in 1..Len(gets) : gets[k] = RequestUrl(urls[k])) /\ (pc = "loop" => (ok + fail = i - 1 /\ Len(gets) = i - 1)) /\ ("Done" \in log => (ok + fail = Len(urls) /\ Len(gets) = Len(urls))))

\* the second target has been fetched and saved after the first one failed
C1_Witness == pc = "saved" /\ i = 2 /\ fail = 1 /\ ok = 0 /\ Len(gets) = 2

\* C2: a target whose destination already holds a file of the declared content
\* length is skipped and nothing is written for it.
C2_RerunSkipsAndWritesNothing == pc \in {"open_tmp", "stream", "rename", "saved"} => ~(dest_before.exists /\ resp.clen.some /\ dest_before.have = ToInt(resp.clen.val))

\* C3: during a transfer, interrupted or not, the file at the final name is the
\* file that was there before or the completely written new body, and no file
\* under a final name is ever partly written.
C3_FinalNameNeverPartial == (dest.some => (fs[dest.val] = dest_before \/ (fs[dest.val] = NewFile(u, resp.total, resp.total) /\ pc \in {"saved", "killed"}))) /\ (\A n \in FinalNames : fs[n].exists => fs[n].have = fs[n].total)

\* the run was interrupted between two chunk writes of a transfer over an
\* existing file, which is still whole
C3_Witness == pc = "killed" /\ dest.some /\ dest_before.exists /\ fs[dest.val] = dest_before /\ fs[tmp_path(dest.val)].exists /\ fs[tmp_path(dest.val)].have >= 1 /\ fs[tmp_path(dest.val)].have < fs[tmp_path(dest.val)].total

NoDuplicates(q) == \A a, b \in 1..Len(q) : a # b => q[a] # q[b]

FirstIndex(q, x) == CHOOSE k \in 1..Len(q) : q[k] = x /\ \A j \in 1..k - 1 : q[j] # x

\* out holds the elements of q once each, in the order of their first occurrence
IsFirstSeenDedup(q, out) == NoDuplicates(out) /\ {out[k] : k \in 1..Len(out)} = {q[k] : k \in 1..Len(q)} /\ (\A a, b \in 1..Len(out) : a < b => FirstIndex(q, out[a]) < FirstIndex(q, out[b]))

\* C4: the collector returns the classified URLs without duplicates in
\* first-seen order, and no URL is fetched twice in a run: one GET per element.
C4_NoTargetFetchedTwice == NoDuplicates(gets) /\ (pc = "collected" => IsFirstSeenDedup(ClassifiedUrls(anchors), urls)) /\ ("Done" \in log => Len(gets) = Len(urls))

\* the collector has dropped a duplicate and kept two targets
C4_Witness == pc = "collected" /\ Len(urls) = 2 /\ Len(ClassifiedUrls(anchors)) > Len(urls)

\* C9: on every exit path of main every resource acquired has been released.
C9_AllReleasedAtExit == pc = "exit" => open = {}

\* C10: after a fatal setup failure (no browser, no navigation, login never
\* completed) the failure is reported and no download GET is issued; stated
\* here is the part about the GET: none has been sent in a run that met one.
C10_NoDownloadAfterSetupFailure == setup_failure # "none" => gets = <<>>

-----------------------------------------------------------------------------
(* Claims about sanitize_filename, under SpecSanitize *)

\* C8: sanitize_filename is idempotent and its result is at most 220 characters long.
C8_IdempotentAndBounded == s_pc = "done" => (Len(s_out) <= MaxNameLen /\ sanitize_filename(s_out) = s_out)

====
